---------------------------- MODULE Spec2Model ----------------------------
(* BatchReader of pkg/infrastructure/converter/batch_reader.go: a reader   *)
(* that pulls rows from a forward-only SQL cursor, appends them to Arrow    *)
(* column builders and emits reference-counted record batches.              *)
EXTENDS Integers, Sequences, FiniteSets, TLC

(***************************************************************************)
(* Bounds of the model                                                     *)
(***************************************************************************)
MaxRows == 3        \* rows of a cursor over one of the batching schemas
TypeRows == 1       \* rows of a cursor over any other schema
MaxBatch == 2       \* largest argument handed to SetBatchSize
MaxRefs == 2        \* references to the reader held at one time
MaxSlices == 2      \* slices obtained from Record() and not yet released

(***************************************************************************)
(* Program constants                                                       *)
(***************************************************************************)
defaultBatchSize == 1024

Holders == {1, 2}

\* 2^24: every integer of smaller magnitude is exact in a float32
Float32Exact == 16777216

\* Payloads of cursor cells.  An integer stands for the number itself in a
\* numeric column, for Unix seconds in a temporal column and for the
\* identity of the text or bytes in a STRING, BINARY or DECIMAL column.
Values == {-1, 1, Float32Exact + 1}


Abs(x) == IF x < 0 THEN -x ELSE x

\* Go's integer division truncates toward zero (TLA+ \div floors).
GoDiv(a, b) == IF a >= 0 THEN a \div b ELSE -((-a) \div b)

\* float32(v) for an integer-valued float64 v with |v| < 2^25: exact below
\* 2^24, otherwise rounded to the nearest even mantissa (a multiple of 4
\* when v is odd, v itself when v is even).
Float32Of(v) ==
    IF Abs(v) <= Float32Exact THEN v
    ELSE IF v % 2 = 0 THEN v
    ELSE IF (v - 1) % 4 = 0 THEN v - 1 ELSE v + 1

(***************************************************************************)
(* Arrow logical types and the builders array.NewRecordBuilder gives them   *)
(***************************************************************************)
SupportedTypes ==
    {"BOOL", "INT8", "INT16", "INT32", "INT64",
     "UINT8", "UINT16", "UINT32", "UINT64",
     "FLOAT32", "FLOAT64", "STRING", "BINARY",
     "DATE32", "DATE64", "TIME32", "TIME64", "TIMESTAMP",
     "DECIMAL", "DECIMAL256"}

\* a type createScanDest has no case for
UnknownTypes == {"LARGE_STRING"}

ArrowTypes == SupportedTypes \cup UnknownTypes

Fields == [type : ArrowTypes, nullable : BOOLEAN]

BuilderOf(t) ==
    CASE t = "BOOL" -> "BooleanBuilder"
      [] t = "INT8" -> "Int8Builder"
      [] t = "INT16" -> "Int16Builder"
      [] t = "INT32" -> "Int32Builder"
      [] t = "INT64" -> "Int64Builder"
      [] t = "UINT8" -> "Uint8Builder"
      [] t = "UINT16" -> "Uint16Builder"
      [] t = "UINT32" -> "Uint32Builder"
      [] t = "UINT64" -> "Uint64Builder"
      [] t = "FLOAT32" -> "Float32Builder"
      [] t = "FLOAT64" -> "Float64Builder"
      [] t = "STRING" -> "StringBuilder"
      [] t = "BINARY" -> "BinaryBuilder"
      [] t = "DATE32" -> "Date32Builder"
      [] t = "DATE64" -> "Date64Builder"
      [] t = "TIME32" -> "Time32Builder"
      [] t = "TIME64" -> "Time64Builder"
      [] t = "TIMESTAMP" -> "TimestampBuilder"
      [] t = "DECIMAL" -> "Decimal128Builder"
      [] t = "DECIMAL256" -> "Decimal256Builder"
      [] OTHER -> "LargeStringBuilder"

\* The values a column of type t can hold at the backend.
TypeHolds(t, v) ==
    CASE t = "BOOL" -> v \in {0, 1}
      [] t = "INT8" -> v >= -128 /\ v <= 127
      [] t = "INT16" -> v >= -32768 /\ v <= 32767
      [] t = "UINT8" -> v >= 0 /\ v <= 255
      [] t = "UINT16" -> v >= 0 /\ v <= 65535
      [] t \in {"UINT32", "UINT64"} -> v >= 0
      [] OTHER -> TRUE

(***************************************************************************)
(* createScanDest: the scan destination of a field                         *)
(***************************************************************************)
createScanDest(field) ==
    LET t == field.type
        n == field.nullable
    IN CASE t = "BOOL" -> IF n THEN "*sql.NullBool" ELSE "*bool"
         [] t = "INT8" -> IF n THEN "*sql.NullByte" ELSE "*int8"
         [] t = "UINT8" -> IF n THEN "*sql.NullByte" ELSE "*uint8"
         [] t = "INT16" -> IF n THEN "*sql.NullInt16" ELSE "*int16"
         [] t = "UINT16" -> IF n THEN "**uint16" ELSE "*uint16"
         [] t = "INT32" -> IF n THEN "*sql.NullInt32" ELSE "*int32"
         [] t = "UINT32" -> IF n THEN "**uint32" ELSE "*uint32"
         [] t = "INT64" -> IF n THEN "*sql.NullInt64" ELSE "*int64"
         [] t = "UINT64" -> IF n THEN "**uint64" ELSE "*uint64"
         [] t = "FLOAT32" -> IF n THEN "*sql.NullFloat64" ELSE "*float32"
         [] t = "FLOAT64" -> IF n THEN "*sql.NullFloat64" ELSE "*float64"
         [] t = "STRING" -> IF n THEN "*sql.NullString" ELSE "*string"
         [] t = "BINARY" -> "*[]byte"
         [] t \in {"DATE32", "DATE64", "TIME32", "TIME64", "TIMESTAMP"} ->
                IF n THEN "*sql.NullTime" ELSE "*time.Time"
         [] t \in {"DECIMAL", "DECIMAL256"} ->
                IF n THEN "*sql.NullString" ELSE "*string"
         [] OTHER -> "*interface{}"


(***************************************************************************)
(* Cursor cells and rows.Scan                                              *)
(***************************************************************************)
\* Go types of the values a driver hands to Scan; "nil" is SQL NULL and
\* "int32" stands for a driver-specific type outside database/sql's six.
DriverKinds == {"bool", "int64", "float64", "string", "[]byte", "time.Time", "int32"}

NullCell == [k |-> "nil", v |-> 0]

\* The Go type in which a driver reports a value of a column of type t.
DriverKindOf(t) ==
    CASE t = "BOOL" -> "bool"
      [] t \in {"INT8", "INT16", "INT32", "INT64",
                "UINT8", "UINT16", "UINT32", "UINT64"} -> "int64"
      [] t \in {"FLOAT32", "FLOAT64"} -> "float64"
      [] t \in {"STRING", "DECIMAL", "DECIMAL256"} -> "string"
      [] t = "BINARY" -> "[]byte"
      [] OTHER -> "time.Time"

\* The cells a cursor can deliver in a column of the given field, with
\* payloads drawn from vals.
CellsOf(field, vals) ==
    {NullCell} \cup
    (IF field.type \in SupportedTypes
     THEN {[k |-> DriverKindOf(field.type), v |-> x] :
              x \in {y \in vals : TypeHolds(field.type, y)}}
     ELSE {[k |-> d, v |-> 1] : d \in DriverKinds})

\* The values a scan destination can take.
SlotHolds(slot, v) ==
    CASE slot \in {"*bool", "*sql.NullBool"} -> v \in {0, 1}
      [] slot = "*int8" -> v >= -128 /\ v <= 127
      [] slot \in {"*uint8", "*sql.NullByte"} -> v >= 0 /\ v <= 255
      [] slot \in {"*int16", "*sql.NullInt16"} -> v >= -32768 /\ v <= 32767
      [] slot \in {"*uint16", "**uint16"} -> v >= 0 /\ v <= 65535
      [] slot \in {"*uint32", "**uint32", "*uint64", "**uint64"} -> v >= 0
      [] OTHER -> TRUE

\* Destinations that accept SQL NULL: the sql.Null* structs (Valid = false),
\* a byte slice (left nil), a dynamic cell (left nil) and a pointer to a
\* pointer (left nil).
AcceptsNull(slot) ==
    slot \in {"*sql.NullBool", "*sql.NullByte", "*sql.NullInt16",
              "*sql.NullInt32", "*sql.NullInt64", "*sql.NullFloat64",
              "*sql.NullString", "*sql.NullTime", "*[]byte", "*interface{}",
              "**uint16", "**uint32", "**uint64"}

\* rows.Scan of one cell into one destination.  ok = FALSE is a scan error;
\* set is the validity flag of a sql.Null* struct or the non-nil-ness of the
\* value behind the pointer; dyn is the Go type stored in a dynamic cell.
ScanCell(slot, cell) ==
    IF cell.k = "nil"
    THEN [ok |-> AcceptsNull(slot), slot |-> slot, set |-> ~AcceptsNull(slot),
          v |-> 0, dyn |-> "nil"]
    ELSE [ok |-> SlotHolds(slot, cell.v), slot |-> slot, set |-> TRUE,
          v |-> cell.v, dyn |-> cell.k]

(***************************************************************************)
(* appendValue and its helpers.  A result is "ok" with the appended cell,   *)
(* "error" (an Internal error is returned) or "panic" (a failed            *)
(* single-value type assertion on the field builder fb).                    *)
(***************************************************************************)
\* A cell of a batch: valid is its validity bit; its value is v * scale
\* (scale is 1 except for the temporal units, whose products are kept
\* symbolic).
NullOut == [valid |-> FALSE, v |-> 0, scale |-> 1]
Ok(cell) == [res |-> "ok", cell |-> cell]
Scaled(v, scale) == Ok([valid |-> TRUE, v |-> v, scale |-> scale])
Appended(v) == Scaled(v, 1)
Failed(how) == [res |-> how, cell |-> NullOut]

\* Append through a single-value type assertion on fb: it panics when fb is
\* not the asserted builder.
AssertAppend(fb, want, v) == IF fb = want THEN Appended(v) ELSE Failed("panic")

SecondsPerDay == 86400

appendTimeValue(fb, t) ==
    CASE fb = "Date32Builder" -> Appended(GoDiv(t, SecondsPerDay))
      [] fb = "Date64Builder" -> Scaled(t, 1000)
      [] fb = "Time32Builder" -> Appended(t % SecondsPerDay)
      [] fb = "Time64Builder" -> Scaled(t % SecondsPerDay, 1000000)
      [] fb = "TimestampBuilder" -> Scaled(t, 1000000)
      [] OTHER -> Failed("error")

\* toString of a value of a type it has no case for is the empty string,
\* written 0 here.
toString(kind, v) ==
    IF kind \in {"string", "[]byte", "int64", "float64", "bool"} THEN v ELSE 0

appendDynamicValue(fb, kind, v) ==
    CASE kind = "nil" -> Ok(NullOut)
      [] kind = "bool" -> AssertAppend(fb, "BooleanBuilder", v)
      [] kind = "int64" -> AssertAppend(fb, "Int64Builder", v)
      [] kind = "float64" -> AssertAppend(fb, "Float64Builder", v)
      [] kind = "string" -> AssertAppend(fb, "StringBuilder", v)
      [] kind = "[]byte" -> AssertAppend(fb, "BinaryBuilder", v)
      [] kind = "time.Time" -> appendTimeValue(fb, v)
      [] OTHER -> AssertAppend(fb, "StringBuilder", toString(kind, v))

\* The builder each typed case of appendValue asserts.
AssertedBuilder(slot) ==
    CASE slot \in {"*bool", "*sql.NullBool"} -> "BooleanBuilder"
      [] slot = "*int8" -> "Int8Builder"
      [] slot \in {"*uint8", "*sql.NullByte"} -> "Uint8Builder"
      [] slot \in {"*int16", "*sql.NullInt16"} -> "Int16Builder"
      [] slot = "*uint16" -> "Uint16Builder"
      [] slot \in {"*int32", "*sql.NullInt32"} -> "Int32Builder"
      [] slot = "*uint32" -> "Uint32Builder"
      [] slot \in {"*int64", "*sql.NullInt64"} -> "Int64Builder"
      [] slot = "*uint64" -> "Uint64Builder"
      [] slot = "*float32" -> "Float32Builder"
      [] slot = "*float64" -> "Float64Builder"
      [] slot \in {"*string", "*sql.NullString"} -> "StringBuilder"
      [] slot = "*[]byte" -> "BinaryBuilder"
      [] OTHER -> "none"

\* appendValue as it would be if the typed cases appended the slot's value
\* without looking at its validity flag
appendValueIgnoringValidity(fb, d) ==
    CASE d.slot \in {"**uint16", "**uint32", "**uint64"} -> Failed("error")
      [] d.slot = "*sql.NullFloat64" ->
            CASE fb = "Float64Builder" -> Appended(d.v)
              [] fb = "Float32Builder" -> Appended(Float32Of(d.v))
              [] OTHER -> Failed("error")
      [] d.slot \in {"*time.Time", "*sql.NullTime"} -> appendTimeValue(fb, d.v)
      [] d.slot = "*interface{}" -> appendDynamicValue(fb, d.dyn, d.v)
      [] OTHER -> AssertAppend(fb, AssertedBuilder(d.slot), d.v)

appendValue(fb, d) ==
    CASE d.slot \in {"**uint16", "**uint32", "**uint64"} ->
            Failed("error")                     \* default: unsupported scan type
      [] ~d.set -> Ok(NullOut)                  \* fb.AppendNull()
      [] d.slot = "*sql.NullFloat64" ->
            CASE fb = "Float64Builder" -> Appended(d.v)
              [] fb = "Float32Builder" -> Appended(Float32Of(d.v))
              [] OTHER -> Failed("error")
      [] d.slot \in {"*time.Time", "*sql.NullTime"} -> appendTimeValue(fb, d.v)
      [] d.slot = "*interface{}" -> appendDynamicValue(fb, d.dyn, d.v)
      [] OTHER -> AssertAppend(fb, AssertedBuilder(d.slot), d.v)

(***************************************************************************)
(* State                                                                   *)
(***************************************************************************)
VARIABLES
    schema,       \* r.schema: sequence of fields
    rowDest,      \* r.rowDest: the scan destination of each column
    cursor,       \* the result set behind r.rows: the rows fetched so far and
                  \* whether it is open, ended cleanly or ended with an error
    rows,         \* r.rows: nil or not, and the Close() calls made on it
    refCount,     \* r.refCount
    record,       \* r.record: 0 (nil) or the number of the batch it holds
    builder,      \* r.builder: "nil" or "live"
    liveBuilders, \* record builders allocated and not yet released
    err,          \* r.err: "nil" or the code of the error
    batchSize,    \* r.batchSize
    batches,      \* the batches built so far, in order
    bufRef,       \* bufRef[k][c]: reference count of column c's buffers of batch k
    slices,       \* slices[k]: slices of batch k the consumer holds
    held,         \* held[h]: references to the reader that holder h owns
    cleanups,     \* number of times cleanup ran
    crashed,      \* a panic unwound the reading goroutine
    last,         \* the latest Next or SetBatchSize call and what it did
    stopped       \* some call of Next has returned false

vars == <<schema, rowDest, cursor, rows, refCount, record, builder,
          liveBuilders, err, batchSize, batches, bufRef, slices, held,
          cleanups, crashed, last, stopped>>

NumCols == Len(schema)
Cols == 1..NumCols

Call(op, ret, st, read, arg, prev) ==
    [op |-> op, ret |-> ret, st |-> st, read |-> read, arg |-> arg, prev |-> prev]

Field(t, n) == [type |-> t, nullable |-> n]

\* schemas read in several batches
BatchSchemas ==
    {<<Field("INT64", TRUE), Field("STRING", TRUE)>>,
     <<Field("INT64", FALSE)>>}

\* one column of any field
TypeSchemas == {<<f>> : f \in Fields}

RowBound(sch) == IF sch \in BatchSchemas THEN MaxRows ELSE TypeRows

\* The payloads of column c of the n-th row of a cursor.  Over a batching
\* schema every cell carries the number of its row and column, so that a
\* row out of place shows; elsewhere the payloads are drawn from Values.
ValuesFor(sch, c, n) ==
    IF sch \in BatchSchemas THEN {10 * (c - 1) + n} ELSE Values

\* the rows a cursor over the given schema can deliver as its n-th row
RowsOf(sch, n) ==
    LET cells(c) == CellsOf(sch[c], ValuesFor(sch, c, n))
    IN {row \in [1..Len(sch) -> UNION {cells(c) : c \in 1..Len(sch)}] :
           \A c \in 1..Len(sch) : row[c] \in cells(c)}

(***************************************************************************)
(* NewBatchReader / NewBatchReaderWithSchema: the state after construction  *)
(***************************************************************************)
NewBatchReaderWithSchema(sch) ==
    /\ schema = sch
    /\ rowDest = [c \in 1..Len(sch) |-> createScanDest(sch[c])]
    /\ cursor = [data |-> <<>>, state |-> "open"]
    /\ rows = [nil |-> FALSE, closes |-> 0]
    /\ refCount = 1
    /\ record = 0
    /\ builder = "live"
    /\ liveBuilders = 1
    /\ err = "nil"
    /\ batchSize = defaultBatchSize
    /\ batches = <<>>
    /\ bufRef = <<>>
    /\ slices = <<>>
    /\ held = [h \in Holders |-> IF h = 1 THEN 1 ELSE 0]
    /\ cleanups = 0
    /\ crashed = FALSE
    /\ last = Call("new", "-", "-", 0, 0, 0)
    /\ stopped = FALSE

Init == \E sch \in BatchSchemas \cup TypeSchemas : NewBatchReaderWithSchema(sch)

\* a call on the reader is made through a reference the caller holds
Holds(h) == ~crashed /\ held[h] >= 1

(***************************************************************************)
(* SetBatchSize                                                            *)
(***************************************************************************)
\* SetBatchSize as it would be without the size > 0 test
SetBatchSizeUnchecked(h, size) ==
    /\ Holds(h)
    /\ batchSize' = size
    /\ last' = Call("SetBatchSize", "-", "-", 0, size, batchSize)
    /\ UNCHANGED <<schema, rowDest, cursor, rows, refCount, record, builder,
                   liveBuilders, err, batches, bufRef, slices, held,
                   cleanups, crashed, stopped>>

SetBatchSize(h, size) ==
    /\ Holds(h)
    /\ batchSize' = IF size > 0 THEN size ELSE batchSize
    /\ last' = Call("SetBatchSize", "-", "-", 0, size, batchSize)
    /\ UNCHANGED <<schema, rowDest, cursor, rows, refCount, record, builder,
                   liveBuilders, err, batches, bufRef, slices, held,
                   cleanups, crashed, stopped>>

(***************************************************************************)
(* Retain / Release / cleanup                                              *)
(***************************************************************************)
Sum(f) == f[1] + f[2]

\* Retain as it would be if the reference were handed over without being
\* counted
RetainUncounted(h, g) ==
    /\ Holds(h)
    /\ Sum(held) < MaxRefs
    /\ held' = [held EXCEPT ![g] = @ + 1]
    /\ UNCHANGED <<last, schema, rowDest, cursor, rows, refCount, record, builder,
                   liveBuilders, err, batchSize, batches, bufRef, slices,
                   cleanups, crashed, stopped>>

\* holder h retains the reader and hands the new reference to holder g
Retain(h, g) ==
    /\ Holds(h)
    /\ Sum(held) < MaxRefs
    /\ refCount' = refCount + 1
    /\ held' = [held EXCEPT ![g] = @ + 1]
    /\ UNCHANGED <<last, schema, rowDest, cursor, rows, record, builder,
                   liveBuilders, err, batchSize, batches, bufRef, slices,
                   cleanups, crashed, stopped>>

\* cleanup closes the cursor and releases the builder; the record is set
\* to nil without being released.
cleanup ==
    /\ rows' = IF rows.nil THEN rows
               ELSE [nil |-> TRUE, closes |-> rows.closes + 1]
    /\ builder' = "nil"
    /\ liveBuilders' = IF builder # "nil" THEN liveBuilders - 1 ELSE liveBuilders
    /\ record' = 0
    /\ bufRef' = bufRef
    /\ cleanups' = cleanups + 1

\* LastReference as it would be if Release compared the count before the
\* decrement
LastReferenceEarly(count) == count <= 1

\* whether the Add(-1) of Release found the last reference gone
LastReference(count) == count = 0

Release(h) ==
    /\ Holds(h)
    /\ refCount' = refCount - 1
    /\ held' = [held EXCEPT ![h] = @ - 1]
    /\ IF LastReference(refCount')
       THEN cleanup
       ELSE UNCHANGED <<rows, builder, liveBuilders, record, bufRef, cleanups>>
    /\ UNCHANGED <<last, schema, rowDest, cursor, err, batchSize, batches, slices,
                   crashed, stopped>>

(***************************************************************************)
(* Record batches: a record owns one reference to each of its columns;      *)
(* NewSlice makes a record that shares the buffers and adds a reference to  *)
(* each column; releasing a record drops its reference to each column.      *)
(***************************************************************************)
NewRecordCols == [c \in Cols |-> 1]
\* NewSlice as it would be if the slice shared the columns without
\* retaining them
NewSliceUnretained(refs) == refs
NewSlice(refs) == [c \in DOMAIN refs |-> refs[c] + 1]
ReleaseCols(refs) == [c \in DOMAIN refs |-> refs[c] - 1]

RECURSIVE SumSeq(_)
SumSeq(q) == IF q = <<>> THEN 0 ELSE Head(q) + SumSeq(Tail(q))

LiveSlices == SumSeq(slices)

(***************************************************************************)
(* Record                                                                  *)
(***************************************************************************)
\* Record as it would be if it handed the reader's own record to the caller
\* and kept none
RecordGivesAway(h) ==
    /\ Holds(h)
    /\ IF record = 0
       THEN UNCHANGED <<record, slices>>
       ELSE /\ LiveSlices < MaxSlices
            /\ slices' = [slices EXCEPT ![record] = @ + 1]
            /\ record' = 0
    /\ UNCHANGED <<last, schema, rowDest, cursor, rows, refCount, builder,
                   liveBuilders, err, batchSize, batches, bufRef, held,
                   cleanups, crashed, stopped>>

Record(h) ==
    /\ Holds(h)
    /\ IF record = 0
       THEN UNCHANGED <<bufRef, slices>>
       ELSE /\ LiveSlices < MaxSlices
            /\ bufRef' = [bufRef EXCEPT ![record] = NewSlice(@)]
            /\ slices' = [slices EXCEPT ![record] = @ + 1]
    /\ UNCHANGED <<last, schema, rowDest, cursor, rows, refCount, record, builder,
                   liveBuilders, err, batchSize, batches, held, cleanups,
                   crashed, stopped>>

\* the consumer releases a slice it got from Record()
ReleaseSlice(k) ==
    /\ ~crashed
    /\ k \in 1..Len(slices)
    /\ slices[k] > 0
    /\ slices' = [slices EXCEPT ![k] = @ - 1]
    /\ bufRef' = [bufRef EXCEPT ![k] = ReleaseCols(@)]
    /\ UNCHANGED <<last, schema, rowDest, cursor, rows, refCount, record, builder,
                   liveBuilders, err, batchSize, batches, held, cleanups,
                   crashed, stopped>>

(***************************************************************************)
(* Next                                                                    *)
(***************************************************************************)
\* r.rows.Scan(r.rowDest...)
ScanRow(row) == [c \in Cols |-> ScanCell(rowDest[c], row[c])]
ScanOK(dests) == \A c \in Cols : dests[c].ok

Min(S) == CHOOSE x \in S : \A y \in S : x <= y

\* the loop over r.rowDest: stops at the first column whose append fails
AppendRow(dests) ==
    LET out == [c \in Cols |-> appendValue(BuilderOf(schema[c].type), dests[c])]
        bad == {c \in Cols : out[c].res # "ok"}
    IN IF bad = {}
       THEN [res |-> "ok", col |-> 0, cells |-> [c \in Cols |-> out[c].cell]]
       ELSE [res |-> out[Min(bad)].res, col |-> Min(bad), cells |-> <<>>]

\* rows.Err() once rows.Next() has returned false
RowsErr(state) == IF state = "failed" THEN "driver" ELSE "nil"

Outcome(st, fetched, acc, state) ==
    [st |-> st, fetched |-> fetched, rows |-> acc, state |-> state]

RECURSIVE ReadBatch(_, _, _)
\* The for loop of Next, for every way the cursor can behave: i is the loop
\* counter, fetched the rows this call has fetched, acc the rows it has
\* appended to the builder.  An open cursor delivers another row or ends,
\* cleanly or with an error; an ended one stays as it ended.
ReadBatch(i, fetched, acc) ==
    IF i >= batchSize
    THEN {Outcome("full", fetched, acc, cursor.state)}
    ELSE LET ends == IF cursor.state = "open" THEN {"eof", "failed"}
                     ELSE {cursor.state}
             more == IF /\ cursor.state = "open"
                        /\ Len(cursor.data) + Len(fetched) < RowBound(schema)
                     THEN RowsOf(schema, Len(cursor.data) + Len(fetched) + 1)
                     ELSE {}
             step(row) ==
                 LET dests == ScanRow(row)
                     app == AppendRow(dests)
                     got == Append(fetched, row)
                 IN IF ~ScanOK(dests)
                    THEN {Outcome("scanerr", got, acc, "open")}
                    ELSE IF app.res # "ok"
                    THEN {Outcome(app.res, got, acc, "open")}
                    ELSE ReadBatch(i + 1, got, Append(acc, app.cells))
         IN {Outcome(IF i = 0 THEN "end" ELSE "break", fetched, acc, e) : e \in ends}
            \cup UNION {step(row) : row \in more}

\* ErrAfter as it would be if the end of the cursor were reported as an error
ErrAfterEndFails(st, state) ==
    CASE st = "end" -> "driver"
      [] st = "scanerr" -> "QueryFailed"
      [] st = "error" -> "Internal"
      [] st = "break" -> RowsErr(state)
      [] OTHER -> "nil"

\* the error Next leaves in r.err for each way the loop can end
ErrAfter(st, state) ==
    CASE st = "end" -> RowsErr(state)
      [] st = "scanerr" -> "QueryFailed"
      [] st = "error" -> "Internal"
      [] st = "break" -> RowsErr(state)
      [] OTHER -> "nil"

\* KeepsRecord as it would be if a batch cut short by the end of the cursor
\* were dropped
KeepsRecordFullOnly(st, n) == st = "full" /\ n > 0

\* whether Next stores the rows it appended as the current record
KeepsRecord(st, n) == st \in {"full", "break"} /\ n > 0

\* ReturnsEarly as it would be if Next did not look at r.err first
ReturnsEarlyNever == FALSE

\* the test Next starts with: a reader with an error reads nothing more
ReturnsEarly == err # "nil"

Next(h) ==
    /\ Holds(h)
    /\ IF ReturnsEarly
       THEN /\ last' = Call("Next", "false", "early", 0, 0, batchSize)
            /\ UNCHANGED <<cursor, record, builder, liveBuilders, err, batches,
                           bufRef, slices, crashed>>
       ELSE \E out \in ReadBatch(0, <<>>, <<>>) :
            LET n == Len(out.rows)
                released == IF record = 0 THEN bufRef
                            ELSE [bufRef EXCEPT ![record] = ReleaseCols(@)]
                newErr == ErrAfter(out.st, out.state)
            IN /\ builder' = "live"
               /\ liveBuilders' = IF builder # "nil" THEN liveBuilders
                                  ELSE liveBuilders + 1
               /\ cursor' = [data |-> cursor.data \o out.fetched,
                             state |-> out.state]
               /\ crashed' = (out.st = "panic")
               /\ err' = newErr
               /\ IF KeepsRecord(out.st, n)
                  THEN /\ batches' = Append(batches,
                               [rows |-> out.rows, size |-> batchSize])
                       /\ bufRef' = Append(released, NewRecordCols)
                       /\ slices' = Append(slices, 0)
                       /\ record' = Len(batches) + 1
                  ELSE /\ bufRef' = released
                       /\ record' = 0
                       /\ UNCHANGED <<batches, slices>>
               /\ last' = Call("Next",
                               IF out.st = "panic" THEN "panic"
                               ELSE IF KeepsRecord(out.st, n) /\ newErr = "nil"
                               THEN "true" ELSE "false",
                               out.st, n, 0, batchSize)
    /\ stopped' = (stopped \/ last'.ret = "false")
    /\ UNCHANGED <<schema, rowDest, rows, refCount, batchSize, held, cleanups>>

(***************************************************************************)
(* Specification                                                           *)
(***************************************************************************)
SizeArgs == -1..MaxBatch

Step ==
    \/ \E h \in Holders, size \in SizeArgs : SetBatchSize(h, size)
    \/ \E h \in Holders, g \in Holders : Retain(h, g)
    \/ \E h \in Holders : Release(h)
    \/ \E h \in Holders : Record(h)
    \/ \E k \in 1..MaxRows : ReleaseSlice(k)
    \/ \E h \in Holders : Next(h)

Spec == Init /\ [][Step]_vars

(***************************************************************************)
(* NewBatchReader: the schema is inferred from the cursor's column types;   *)
(* the cursor is closed when the inference fails                            *)
(***************************************************************************)
\* a column as rows.ColumnTypes() reports it: whether GetArrowFieldFromColumn
\* maps it, and the field it maps to
Column(mappable, field) == [mappable |-> mappable, field |-> field]

\* the column lists a cursor can report
ColumnLists ==
    {[c \in 1..Len(sch) |-> Column(TRUE, sch[c])] : sch \in BatchSchemas}
    \cup {<<Column(FALSE, Field("INT64", TRUE))>>,
          <<Column(TRUE, Field("INT64", TRUE)), Column(FALSE, Field("STRING", TRUE))>>}

\* what rows.ColumnTypes() returns: an error, or the columns
ColumnTypes ==
    {[err |-> TRUE, cols |-> <<>>]} \cup {[err |-> FALSE, cols |-> cs] : cs \in ColumnLists}

\* the state in which a constructor has returned (nil, error): there is no
\* reader, nobody holds a reference, and the cursor has seen `closes` calls
\* of Close()
NoReader(why, closes) ==
    /\ schema = <<>>
    /\ rowDest = <<>>
    /\ cursor = [data |-> <<>>, state |-> "open"]
    /\ rows = [nil |-> TRUE, closes |-> closes]
    /\ refCount = 0
    /\ record = 0
    /\ builder = "nil"
    /\ liveBuilders = 0
    /\ err = "nil"
    /\ batchSize = defaultBatchSize
    /\ batches = <<>>
    /\ bufRef = <<>>
    /\ slices = <<>>
    /\ held = [h \in Holders |-> 0]
    /\ cleanups = 0
    /\ crashed = FALSE
    /\ last = Call("new", "error", why, 0, 0, 0)
    /\ stopped = FALSE

\* NewBatchReader as it would be if its error paths returned without
\* closing the cursor
NewBatchReaderLeavesOpen(ct) ==
    IF ct.err
    THEN NoReader("columnTypes", 0)
    ELSE IF \E i \in 1..Len(ct.cols) : ~ct.cols[i].mappable
    THEN NoReader("convert", 0)
    ELSE NewBatchReaderWithSchema([i \in 1..Len(ct.cols) |-> ct.cols[i].field])

NewBatchReader(ct) ==
    IF ct.err
    THEN NoReader("columnTypes", 1)
    ELSE IF \E i \in 1..Len(ct.cols) : ~ct.cols[i].mappable
    THEN NoReader("convert", 1)
    ELSE NewBatchReaderWithSchema([i \in 1..Len(ct.cols) |-> ct.cols[i].field])

InitInferred == \E ct \in ColumnTypes : NewBatchReader(ct)

SpecInferred == InitInferred /\ [][Step]_vars

(***************************************************************************)
(* Properties                                                              *)
(***************************************************************************)
Ceil(a, b) == (a + b - 1) \div b

RECURSIVE ConcatRows(_)
\* the rows of a sequence of batches, in emission order
ConcatRows(bs) == IF bs = <<>> THEN <<>> ELSE Head(bs).rows \o ConcatRows(Tail(bs))

\* what a cursor row becomes in a batch
RowImage(row) == AppendRow(ScanRow(row)).cells

\* the read reached the clean end of the cursor and raised no error
ReadCleanly == cursor.state = "eof" /\ err = "nil" /\ ~crashed

\* every batch was built under batch size B
AllBuiltWith(B) == \A k \in 1..Len(batches) : batches[k].size = B

\* C1: when a cursor of N rows has been read to its end without error under
\* one batch size B, Next returned true ceil(N/B) times, every batch has B
\* rows except the last, which has the remaining N - B*(ceil(N/B) - 1), and
\* the batches concatenated are the cursor's rows in the cursor's order.
C1_Batching ==
    ReadCleanly =>
        LET N == Len(cursor.data)
        IN /\ (N = 0 => batches = <<>>)
           /\ \A B \in {batches[k].size : k \in 1..Len(batches)} :
                 AllBuiltWith(B) =>
                    /\ B >= 1
                    /\ Len(batches) = Ceil(N, B)
                    /\ \A k \in 1..Len(batches) :
                          Len(batches[k].rows) =
                             IF k < Len(batches) THEN B
                             ELSE N - B * (Len(batches) - 1)
                    /\ ConcatRows(batches) = [g \in 1..N |-> RowImage(cursor.data[g])]

\* a cursor of three rows read under batch size 2: a full batch, then a
\* batch of one
C1_Witness ==
    /\ ReadCleanly
    /\ Len(cursor.data) = 3
    /\ Len(batches) = 2
    /\ AllBuiltWith(2)
    /\ Len(batches[2].rows) = 1

\* C2: while the consumer holds a slice of a batch, every column of that
\* batch has a reference count of at least 1, whatever Next and Release
\* calls the reader has seen since.
C2_SliceStaysReadable ==
    \A k \in 1..Len(slices) :
        slices[k] > 0 => \A c \in Cols : bufRef[k][c] >= 1

\* the consumer still holds a slice of a batch the reader has moved past,
\* and the reader has been released for the last time
C2_Witness ==
    /\ refCount = 0
    /\ Len(batches) >= 2
    /\ slices[1] > 0

\* C3: the Next that finds no row on a cursor that ended cleanly returns
\* false and leaves Err() nil; over a cursor of zero rows no batch is ever
\* emitted and Err() stays nil.
C3_CleanEnd ==
    /\ (last.op = "Next" /\ last.st = "end" /\ cursor.state = "eof") =>
           (last.ret = "false" /\ err = "nil")
    /\ (cursor.state = "eof" /\ cursor.data = <<>>) =>
           (batches = <<>> /\ err = "nil")

\* the Next after the last batch found the cursor at its clean end
C3_Witness ==
    /\ last.op = "Next"
    /\ last.st = "end"
    /\ cursor.state = "eof"
    /\ Len(batches) >= 1

\* C4: the count is the number of references held; while it is at least 1
\* cleanup has not run, the cursor is not closed and the reader has its
\* builder; once it is 0 cleanup has run exactly once, the cursor has been
\* closed once and no builder is left.
C4_RefCount ==
    /\ refCount = Sum(held)
    /\ refCount >= 0
    /\ refCount >= 1 =>
          (cleanups = 0 /\ rows.closes = 0 /\ ~rows.nil /\ builder = "live"
           /\ liveBuilders = 1)
    /\ refCount = 0 =>
          (cleanups = 1 /\ rows.closes = 1 /\ rows.nil /\ builder = "nil"
           /\ liveBuilders = 0)

\* the last of two holders released the reader after batches were read
C4_Witness ==
    /\ refCount = 0
    /\ held[2] = 0
    /\ cleanups = 1
    /\ Len(batches) >= 1

\* rows emitted before batch k
Offset(k) == Len(ConcatRows(SubSeq(batches, 1, k - 1)))

\* the cursor cell that cell (j, c) of batch k was read from
SourceCell(k, j, c) == cursor.data[Offset(k) + j][c]

\* types whose append stores the scanned payload as it is
StoresPayload(t) ==
    t \notin {"FLOAT32", "DATE32", "DATE64", "TIME32", "TIME64", "TIMESTAMP"}

\* C5: in every emitted batch, a cell of a nullable column is null exactly
\* when the slot scanned from the same row and column is invalid or nil, and
\* otherwise holds what was scanned there: the payload itself, or for a
\* narrowing or temporal column the payload as that column's append stores it.
C5_NullPropagation ==
    \A k \in 1..Len(batches) :
    \A j \in 1..Len(batches[k].rows) :
    \A c \in Cols :
        schema[c].nullable =>
            LET cell == batches[k].rows[j][c]
                d == ScanCell(rowDest[c], SourceCell(k, j, c))
            IN /\ cell.valid = d.set
               /\ d.set =>
                     IF StoresPayload(schema[c].type)
                     THEN cell.v = d.v /\ cell.scale = 1
                     ELSE cell = appendValue(BuilderOf(schema[c].type), d).cell

\* rows (1, 11), (NULL, 12), (3, NULL) in one batch: validity a = 101, b = 110
C5_Witness ==
    /\ Len(schema) = 2
    /\ Len(batches) = 1
    /\ Len(batches[1].rows) = 3
    /\ [j \in 1..3 |-> batches[1].rows[j][1].valid] = <<TRUE, FALSE, TRUE>>
    /\ [j \in 1..3 |-> batches[1].rows[j][2].valid] = <<TRUE, TRUE, FALSE>>
    /\ batches[1].rows[3][1].v = 3
    /\ batches[1].rows[2][2].v = 12

\* the Go type of the value a filled scan destination holds
GoTypeIn(d) ==
    CASE d.slot \in {"*bool", "*sql.NullBool"} -> "bool"
      [] d.slot = "*int8" -> "int8"
      [] d.slot \in {"*uint8", "*sql.NullByte"} -> "uint8"
      [] d.slot \in {"*int16", "*sql.NullInt16"} -> "int16"
      [] d.slot \in {"*uint16", "**uint16"} -> "uint16"
      [] d.slot \in {"*int32", "*sql.NullInt32"} -> "int32"
      [] d.slot \in {"*uint32", "**uint32"} -> "uint32"
      [] d.slot \in {"*int64", "*sql.NullInt64"} -> "int64"
      [] d.slot \in {"*uint64", "**uint64"} -> "uint64"
      [] d.slot = "*float32" -> "float32"
      [] d.slot \in {"*float64", "*sql.NullFloat64"} -> "float64"
      [] d.slot \in {"*string", "*sql.NullString"} -> "string"
      [] d.slot = "*[]byte" -> "[]byte"
      [] d.slot \in {"*time.Time", "*sql.NullTime"} -> "time.Time"
      [] OTHER -> d.dyn

\* the Go types a builder's appends take (a float64 is narrowed for a
\* Float32Builder, an instant converted for a temporal builder)
TakenBy(fb) ==
    CASE fb = "BooleanBuilder" -> {"bool"}
      [] fb = "Int8Builder" -> {"int8"}
      [] fb = "Int16Builder" -> {"int16"}
      [] fb = "Int32Builder" -> {"int32"}
      [] fb = "Int64Builder" -> {"int64"}
      [] fb = "Uint8Builder" -> {"uint8"}
      [] fb = "Uint16Builder" -> {"uint16"}
      [] fb = "Uint32Builder" -> {"uint32"}
      [] fb = "Uint64Builder" -> {"uint64"}
      [] fb = "Float32Builder" -> {"float32", "float64"}
      [] fb = "Float64Builder" -> {"float64"}
      [] fb \in {"StringBuilder", "LargeStringBuilder"} -> {"string"}
      [] fb = "BinaryBuilder" -> {"[]byte"}
      [] fb \in {"Date32Builder", "Date64Builder", "Time32Builder",
                 "Time64Builder", "TimestampBuilder"} -> {"time.Time"}
      [] OTHER -> {"decimal"}

\* row g of the cursor was scanned and holds, in some column, a value of a
\* type the column's builder does not take
Mismatched(g) ==
    LET dests == ScanRow(cursor.data[g])
    IN /\ ScanOK(dests)
       /\ \E c \in Cols :
             /\ dests[c].set
             /\ GoTypeIn(dests[c]) \notin TakenBy(BuilderOf(schema[c].type))

\* C6: once a scanned value's type does not match its column's builder, the
\* read has not panicked and Err() is an Internal error.
C6_MismatchIsInternalError ==
    \A g \in 1..Len(cursor.data) :
        Mismatched(g) => (~crashed /\ err = "Internal")

\* the value a column of type t should hold for payload v
Expected(t, v) ==
    CASE t = "FLOAT32" -> [valid |-> TRUE, v |-> Float32Of(v), scale |-> 1]
      [] t = "DATE32" -> [valid |-> TRUE, v |-> v \div SecondsPerDay, scale |-> 1]
      [] t = "DATE64" -> [valid |-> TRUE, v |-> v, scale |-> 1000]
      [] t = "TIME32" -> [valid |-> TRUE, v |-> v % SecondsPerDay, scale |-> 1]
      [] t = "TIME64" -> [valid |-> TRUE, v |-> v % SecondsPerDay, scale |-> 1000000]
      [] t = "TIMESTAMP" -> [valid |-> TRUE, v |-> v, scale |-> 1000000]
      [] OTHER -> [valid |-> TRUE, v |-> v, scale |-> 1]

\* C7: over a column of a supported type, of either nullability, a non-null
\* value that was scanned into the column's destination causes neither a
\* panic nor an Internal error, and every value a batch holds is the value
\* scanned (narrowed for FLOAT32, in the column's unit for a temporal type).
C7_EverySupportedTypeAppends ==
    \A c \in Cols :
        schema[c].type \in SupportedTypes =>
            /\ \A g \in 1..Len(cursor.data) :
                  LET dests == ScanRow(cursor.data[g])
                  IN (ScanOK(dests) /\ cursor.data[g][c].k # "nil") =>
                        (~crashed /\ err # "Internal")
            /\ \A k \in 1..Len(batches) :
               \A j \in 1..Len(batches[k].rows) :
                  SourceCell(k, j, c).k # "nil" =>
                     batches[k].rows[j][c] =
                        Expected(schema[c].type, SourceCell(k, j, c).v)

\* C8: when the cursor fails (a fetch or a scan) after at least one row of
\* the batch being built was read, that Next returns false, Err() is set and
\* no current batch is kept.
C8_ErrorAbortsBatch ==
    (/\ last.op = "Next"
     /\ last.read >= 1
     /\ \/ last.st = "scanerr"
        \/ last.st = "break" /\ cursor.state = "failed")
    => (last.ret = "false" /\ err # "nil" /\ record = 0)

\* C9: the reader's own reference is on the current batch only, and once the
\* reader has been released for the last time and the consumer holds no
\* slice, every column of every batch has reference count 0.
C9_NothingStaysAllocated ==
    /\ \A k \in 1..Len(batches) : \A c \in Cols :
          bufRef[k][c] - slices[k] = IF record = k THEN 1 ELSE 0
    /\ (refCount = 0 /\ LiveSlices = 0) =>
          \A k \in 1..Len(batches) : \A c \in Cols : bufRef[k][c] = 0

\* C10: the batch size is 1024 after construction and at least 1 always;
\* SetBatchSize(n) leaves it alone for n <= 0 and makes it n for n > 0;
\* every batch has between 1 and as many rows as the batch size in force
\* when it was built.
C10_BatchSize ==
    /\ last.op = "new" => batchSize = 1024
    /\ batchSize >= 1
    /\ last.op = "SetBatchSize" =>
          batchSize = IF last.arg > 0 THEN last.arg ELSE last.prev
    /\ \A k \in 1..Len(batches) :
          /\ Len(batches[k].rows) >= 1
          /\ Len(batches[k].rows) <= batches[k].size

\* SetBatchSize(0) was ignored after a batch of MaxBatch rows was built
\* under batch size MaxBatch
C10_Witness ==
    /\ last.op = "SetBatchSize"
    /\ last.arg = 0
    /\ batchSize = MaxBatch
    /\ \E k \in 1..Len(batches) :
          batches[k].size = MaxBatch /\ Len(batches[k].rows) = MaxBatch


\* nullable columns whose scan destination is a pointer to a pointer
PointerSlotTypes == {"UINT16", "UINT32", "UINT64"}

\* C11: over a nullable UINT16, UINT32 or UINT64 column, once a row has been
\* scanned the read has neither panicked nor raised an error, and the row is
\* in a batch: a null cell where the slot held no value, the value v where
\* it held v.
C11_PointerSlotAppends ==
    \A c \in Cols :
        (schema[c].nullable /\ schema[c].type \in PointerSlotTypes) =>
            \A g \in 1..Len(cursor.data) :
                LET d == ScanRow(cursor.data[g])
                    out == ConcatRows(batches)
                IN ScanOK(d) =>
                      /\ ~crashed
                      /\ err \notin {"Internal", "QueryFailed"}
                      /\ g <= Len(out)
                      /\ out[g][c] = IF d[c].set
                                     THEN [valid |-> TRUE, v |-> d[c].v, scale |-> 1]
                                     ELSE NullOut

\* whole days from the epoch to the day containing Unix second t
FloorDays(t) == t \div SecondsPerDay

\* C12: every non-null cell of a DATE32 column holds the number of whole
\* days from the epoch to the day containing the instant it was read from,
\* floor(seconds / 86400): -1 for an instant on 1969-12-31.
C12_Date32IsFloorDays ==
    \A c \in Cols :
        schema[c].type = "DATE32" =>
            \A k \in 1..Len(batches) :
            \A j \in 1..Len(batches[k].rows) :
                LET cell == batches[k].rows[j][c]
                IN cell.valid =>
                      /\ cell.scale = 1
                      /\ cell.v = FloorDays(SourceCell(k, j, c).v)


\* NewBatchReader returned an error and no reader
ConstructionFailed == last.op = "new" /\ last.ret = "error"

\* C13: when NewBatchReader fails, the cursor has been closed once and no
\* reader was returned (nobody holds a reference); when it succeeds, the
\* cursor has been closed once if the reader's last reference is gone and
\* has not been closed at all otherwise.
C13_CursorClosed ==
    IF ConstructionFailed
    THEN rows.closes = 1 /\ Sum(held) = 0 /\ refCount = 0
    ELSE rows.closes = IF refCount = 0 THEN 1 ELSE 0

\* a column of the cursor could not be mapped to a field: no reader, cursor closed
C13_Witness ==
    /\ ConstructionFailed
    /\ last.st = "convert"
    /\ rows.closes = 1


\* C14: once a call of Next has returned false, every later call of Next
\* returns false, fetches no row, builds no batch and leaves Err() as it was.
C14_NextIsTerminal ==
    [][(stopped /\ \E h \in Holders : Next(h)) =>
          /\ last'.ret = "false"
          /\ last'.read = 0
          /\ cursor' = cursor
          /\ batches' = batches
          /\ err' = err]_vars

\* Next was called again on a reader that a scan error had stopped after a
\* batch was emitted
C14_Witness ==
    /\ stopped
    /\ last.op = "Next"
    /\ last.st = "early"
    /\ err = "QueryFailed"
    /\ Len(batches) >= 1


\* C15: under every interleaving of the holders' Retain and Release calls,
\* cleanup runs at most once; the step in which it runs is the Release of a
\* holder that takes the count from 1 to 0, and after it no holder has a
\* reference left.
C15_CleanupOnce ==
    [][cleanups' # cleanups =>
          /\ cleanups = 0 /\ cleanups' = 1
          /\ refCount = 1 /\ refCount' = 0
          /\ \E h \in Holders : Release(h) /\ held[h] = 1
          /\ \A g \in Holders : held'[g] = 0]_vars

\* the first holder has released its reference while the second still holds
\* one: no cleanup, cursor open
C15_Witness ==
    /\ held[1] = 0
    /\ held[2] = 1
    /\ refCount = 1
    /\ cleanups = 0
    /\ rows.closes = 0


\* C16: a call of Record leaves the cursor, the current batch, the error,
\* the batch size, the reference count and the batches built so far as they
\* were; with no current batch it hands out nothing, otherwise it hands out
\* one more slice of the current batch and adds one reference to each of
\* that batch's columns and to no other.  There is no current batch after
\* construction and after a Next that found no row.
C16_RecordFrame ==
    [][(\E h \in Holders : Record(h)) =>
          /\ cursor' = cursor /\ record' = record /\ err' = err
          /\ batchSize' = batchSize /\ refCount' = refCount
          /\ batches' = batches /\ rows' = rows
          /\ IF record = 0
             THEN slices' = slices /\ bufRef' = bufRef
             ELSE /\ slices' = [slices EXCEPT ![record] = @ + 1]
                  /\ \A k \in 1..Len(batches) : \A c \in Cols :
                        bufRef'[k][c] =
                           bufRef[k][c] + (IF k = record THEN 1 ELSE 0)
          /\ (last.op = "new" \/ (last.op = "Next" /\ last.st = "end")) =>
                (record = 0 /\ slices' = slices)]_vars

\* Record was called twice on the second batch: two slices of the same rows,
\* three references on each column
C16_Witness ==
    /\ record = 2
    /\ slices[2] = 2
    /\ \A c \in Cols : bufRef[2][c] = 3
    /\ Len(batches[2].rows) >= 1

=============================================================================
